---- MODULE Spec2Model ----
(***************************************************************************)
(* vcf2cytosure: conversion of structural variants of a VCF into the CGH   *)
(* (CytoSure) probe / segment / aberration document.                       *)
(*                                                                         *)
(* The module models src/vcf2cytosure.py: the interval algebra             *)
(* (merge_intervals, complement_intervals, subtract_intervals), the probe  *)
(* geometry (spaced_probes, triangle_probes), the admission filter         *)
(* (variant_filter), the event extractor (events) and the orchestration    *)
(* in main.                                                                *)
(*                                                                         *)
(* Conventions.  Python's None is the empty tuple <<>> and a present value *)
(* v is <<v>>.  A str is the sequence of its characters.  A Python float   *)
(* is an IEEE 754 double, kept as its significand bits and exponent, so    *)
(* that float division, float multiplication and int() round as they do in *)
(* the interpreter.  Probe heights are not part of the model's document.   *)
(***************************************************************************)
EXTENDS Integers, Sequences, FiniteSets, TLC

\* ------------------------------------------------------------------------
\* Bounds of the model.
\* ------------------------------------------------------------------------
\* Length of every known contig, and largest coordinate of a variant record.
ChromLength == 3
\* Spacing of the probes between events, 200000 bp in the source, in the unit
\* in which a contig is ChromLength long.
GapSpacing == 2
\* Minimum variant size (--size, 5000 bp by default), in the same unit.
DefaultSize == 2
\* Largest number of lines of the coverage file.
MaxLines == 1
\* Largest number of records read from the variant stream.
MaxVariants == 2
\* Largest number of intervals, and largest coordinate, handed to the interval
\* functions on their own.
MaxIntervals == 3
MaxCoord == 3
\* Largest start, interval length and spacing handed to spaced_probes on its own.
MaxStart == 1
MaxLength == 60
MaxSpacing == 3
\* Largest number of coverage records handed to subtract_intervals.
MaxRecords == 2

\* ------------------------------------------------------------------------
\* Python values.
\* ------------------------------------------------------------------------
None == <<>>
Some(v) == <<v>>
IsNone(x) == x = <<>>
Val(x) == x[1]
\* Truthiness of an optional integer: None and 0 are false.
Truthy(x) == x # <<>> /\ x[1] # 0

Abs(x) == IF x < 0 THEN -x ELSE x
Max2(a, b) == IF a >= b THEN a ELSE b

\* ------------------------------------------------------------------------
\* Python float (IEEE 754 binary64), for the float division, the
\* multiplication and the int() of spaced_probes.
\* A positive float is [bits, exp]: value = 0.b1 b2 ... b53 (binary) * 2^exp
\* with b1 = 1; zero has no bits.
\* ------------------------------------------------------------------------
MantissaBits == 53
FloatZero == [bits |-> <<>>, exp |-> 0]

\* Number of binary digits of a natural number below 2^20; 0 has none.
NBits(q) == CHOOSE k \in 0..20 : q < 2^k /\ (k = 0 \/ q >= 2^(k - 1))

\* The binary digits of a natural number, most significant first.
BinaryOf(q) == [j \in 1..NBits(q) |-> (q \div 2^(NBits(q) - j)) % 2]

RECURSIVE SumBits(_, _, _)
\* The number written by bits[lo..hi].
SumBits(bits, lo, hi) ==
    IF lo > hi THEN 0 ELSE bits[hi] + 2 * SumBits(bits, lo, hi - 1)

RECURSIVE PowMod(_, _, _)
\* (r * 2^j) % b, the remainder of the long division of r by b after j digits.
PowMod(r, b, j) ==
    IF j <= 12 THEN (r * 2^j) % b ELSE PowMod((r * 4096) % b, b, j - 12)

\* bits + 1 on a bit string that is not all ones.
Increment(bits) ==
    LET p == CHOOSE j \in 1..Len(bits) :
                 bits[j] = 0 /\ \A k \in (j + 1)..Len(bits) : bits[k] = 1
    IN  [j \in 1..Len(bits) |-> IF j < p THEN bits[j] ELSE IF j = p THEN 1 ELSE 0]

\* Round-to-nearest, ties-to-even of a significand with at least
\* MantissaBits + 1 bits, the digits after raw being summarised by sticky.
RoundNearestEven(raw, sticky, exp) ==
    LET kept == SubSeq(raw, 1, MantissaBits)
        guard == raw[MantissaBits + 1]
        tail == \E j \in (MantissaBits + 2)..Len(raw) : raw[j] = 1
        up == guard = 1 /\ (sticky \/ tail \/ kept[MantissaBits] = 1)
    IN  IF ~up THEN [bits |-> kept, exp |-> exp]
        ELSE IF \A j \in 1..MantissaBits : kept[j] = 1
             THEN [bits |-> [j \in 1..MantissaBits |-> IF j = 1 THEN 1 ELSE 0],
                   exp |-> exp + 1]
             ELSE [bits |-> Increment(kept), exp |-> exp]

\* a / b of two ints, 0 <= a, 0 < b (both below 2^10 in this model): the
\* correctly rounded quotient, digit by digit as in long division.
TrueDiv(a, b) ==
    IF a = 0 THEN FloatZero
    ELSE LET q0 == a \div b
             r0 == a % b
             ibits == BinaryOf(q0)
             \* digits between the binary point and the first 1 when q0 = 0
             z == CHOOSE k \in 0..10 : r0 * 2^(k + 1) >= b /\ r0 * 2^k < b
             exp == IF q0 > 0 THEN Len(ibits) ELSE -z
             raw == [s \in 1..(MantissaBits + 1) |->
                        IF s <= exp THEN ibits[s]
                        ELSE (2 * PowMod(r0, b, s - exp - 1)) \div b]
         IN  RoundNearestEven(raw, PowMod(r0, b, MantissaBits + 1 - exp) # 0, exp)

\* The significand is multiplied in limbs of 13 bits (53 = 4 * 13 + 1), so
\* that no intermediate product leaves the 32-bit integers.
\* The limb that ends k limbs before the last bit.
Limb(bits, k) ==
    SumBits(bits, Max2(1, Len(bits) - 13 * k - 12), Len(bits) - 13 * k)

LimbDigits(v) == [j \in 1..13 |-> (v \div 2^(13 - j)) % 2]

\* The exact product of a 53-bit string and a natural number i (below 2^17),
\* limb by limb from the least significant one, carrying upwards.
MulBits(bits, i) ==
    LET p0 == Limb(bits, 0) * i
        p1 == Limb(bits, 1) * i + p0 \div 8192
        p2 == Limb(bits, 2) * i + p1 \div 8192
        p3 == Limb(bits, 3) * i + p2 \div 8192
        p4 == Limb(bits, 4) * i + p3 \div 8192
    IN  BinaryOf(p4) \o LimbDigits(p3 % 8192) \o LimbDigits(p2 % 8192)
            \o LimbDigits(p1 % 8192) \o LimbDigits(p0 % 8192)

\* i * f of an int i >= 0 and a float f: the correctly rounded product.
MulInt(i, f) ==
    IF i = 0 \/ f.bits = <<>> THEN FloatZero
    ELSE LET prod == MulBits(f.bits, i)
             e == f.exp + (Len(prod) - MantissaBits)
         IN  IF Len(prod) = MantissaBits THEN [bits |-> prod, exp |-> e]
             ELSE RoundNearestEven(prod, FALSE, e)

\* int(f): truncation toward zero.
IntOf(f) ==
    IF f.bits = <<>> \/ f.exp <= 0 THEN 0 ELSE SumBits(f.bits, 1, f.exp)

\* ------------------------------------------------------------------------
\* spaced_probes
\* ------------------------------------------------------------------------
RECURSIVE SpacedLoop(_, _, _, _)
\* The while loop: yield pos, then i += 1 and pos = start + int(i * spacing),
\* where spacing = l / m.
SpacedLoop(start, end, m, i) ==
    LET pos == start + IntOf(MulInt(i, TrueDiv(end - start, m)))
    IN  IF pos <= end THEN <<pos>> \o SpacedLoop(start, end, m, i + 1) ELSE <<>>

\* The positions yielded for (start, end).  With start > end the loop body
\* never runs and the (negative) spacing is never read.  With start = end the
\* spacing is 0.0 and the generator never ends; no caller passes that.
spaced_probes(start, end, probe_spacing) ==
    IF start > end THEN <<>>
    ELSE LET l == end - start
             n == l \div probe_spacing
         IN  SpacedLoop(start, end, Max2(n, 2), 0)

\* ------------------------------------------------------------------------
\* list.sort() on a list of tuples: a stable sort by the tuples' order.
\* ------------------------------------------------------------------------
\* less[j, k] tells whether list[j] < list[k]. The element list[k] lands
\* after every element that is smaller and after every equal element that
\* came before it.
Sort(list, less) ==
    LET Rank(k) == 1 + Cardinality({j \in 1..Len(list) :
                        \/ less[j, k]
                        \/ ~less[k, j] /\ j < k})
    IN  [r \in 1..Len(list) |-> list[CHOOSE k \in 1..Len(list) : Rank(k) = r]]

\* ------------------------------------------------------------------------
\* merge_intervals
\* ------------------------------------------------------------------------
\* Mutation: 'STOP' sorted before 'START' at equal positions.
SweepLessStopFirst(a, b) ==
    \/ a[1] < b[1]
    \/ a[1] = b[1] /\ a[2] = "STOP" /\ b[2] = "START"

\* Order of the tuples (pos, what): by position, then by the str order of
\* what, in which 'START' < 'STOP' ('A' < 'O' at the third character).
SweepLess(a, b) ==
    \/ a[1] < b[1]
    \/ a[1] = b[1] /\ a[2] = "START" /\ b[2] = "STOP"

\* events: every START in the order of the intervals, then every STOP, sorted.
MergeEvents(intervals) ==
    LET events == [k \in 1..Len(intervals) |-> <<intervals[k][1], "START">>]
                  \o [k \in 1..Len(intervals) |-> <<intervals[k][2], "STOP">>]
    IN  Sort(events, [j \in 1..Len(events), k \in 1..Len(events) |->
                         SweepLess(events[j], events[k])])

RECURSIVE MergeSweep(_, _, _, _)
\* The for loop over events[k..], with the values of active and start before it.
MergeSweep(events, k, active, start) ==
    IF k > Len(events) THEN <<>>
    ELSE LET pos == events[k][1]
             what == events[k][2]
         IN  IF what = "START"
             THEN MergeSweep(events, k + 1, active + 1,
                             IF active = 0 THEN pos ELSE start)
             ELSE IF active - 1 = 0
                  THEN <<<<start, pos>>>> \o MergeSweep(events, k + 1, active - 1, start)
                  ELSE MergeSweep(events, k + 1, active - 1, start)

merge_intervals(intervals) == MergeSweep(MergeEvents(intervals), 1, 0, 0)

\* ------------------------------------------------------------------------
\* complement_intervals
\* ------------------------------------------------------------------------
RECURSIVE ComplementLoop(_, _, _, _)
\* The for loop over intervals[k..] with the value of prev_end before it, then
\* the trailing gap.
ComplementLoop(intervals, k, prev_end, chromosome_length) ==
    IF k > Len(intervals)
    THEN IF prev_end # chromosome_length
         THEN <<<<prev_end, chromosome_length>>>> ELSE <<>>
    ELSE LET start == intervals[k][1]
             end == intervals[k][2]
             rest == ComplementLoop(intervals, k + 1, end, chromosome_length)
         IN  IF prev_end # start THEN <<<<prev_end, start>>>> \o rest ELSE rest

\* Mutation: the gap after the last interval is left out.
ComplementNoTrailingGap(intervals, chromosome_length) ==
    LET all == ComplementLoop(intervals, 1, 0, chromosome_length)
    IN  IF all # <<>> /\ all[Len(all)][2] = chromosome_length
        THEN SubSeq(all, 1, Len(all) - 1) ELSE all

complement_intervals(intervals, chromosome_length) ==
    ComplementLoop(intervals, 1, 0, chromosome_length)

\* ------------------------------------------------------------------------
\* subtract_intervals
\* ------------------------------------------------------------------------
\* Rank of typ in the str order: 'iend' < 'istart' < 'rec'.
TypRank(typ) == CASE typ = "iend" -> 0 [] typ = "istart" -> 1 [] typ = "rec" -> 2

\* Order of the tuples (pos, typ, record); two 'rec' tuples at one position
\* are never handed to it (see SubtractRaises).
SubtractLess(a, b) ==
    \/ a[1] < b[1]
    \/ a[1] = b[1] /\ TypRank(a[2]) < TypRank(b[2])

SubtractEvents(records, intervals) ==
    LET events ==
            [k \in 1..Len(records) |-> <<records[k].start, "rec", Some(records[k])>>]
            \o [k \in 1..Len(intervals) |-> <<intervals[k][1], "istart", None>>]
            \o [k \in 1..Len(intervals) |-> <<intervals[k][2], "iend", None>>]
    IN  Sort(events, [j \in 1..Len(events), k \in 1..Len(events) |->
                         SubtractLess(events[j], events[k])])

\* events.sort() raises TypeError when it has to order two records, which it
\* does when two of them start at one position (CoverageRecord has no order).
SubtractRaises(records) ==
    \E j, k \in 1..Len(records) : j # k /\ records[j].start = records[k].start

RECURSIVE SubtractSweep(_, _, _)
\* The for loop over events[k..] with the value of inside before it.
SubtractSweep(events, k, inside) ==
    IF k > Len(events) THEN <<>>
    ELSE LET typ == events[k][2]
         IN  IF typ = "istart" THEN SubtractSweep(events, k + 1, TRUE)
             ELSE IF typ = "iend" THEN SubtractSweep(events, k + 1, FALSE)
             ELSE IF ~inside
                  THEN <<Val(events[k][3])>> \o SubtractSweep(events, k + 1, inside)
                  ELSE SubtractSweep(events, k + 1, inside)

\* The records yielded, for records with pairwise different starts.
subtract_intervals(records, intervals) ==
    SubtractSweep(SubtractEvents(records, intervals), 1, FALSE)

\* ------------------------------------------------------------------------
\* str methods used on the ALT allele (a str is the sequence of its characters)
\* ------------------------------------------------------------------------
RECURSIVE Split(_, _)
\* s.split(sep) for a one-character sep: the pieces between the separators.
Split(s, sep) ==
    IF \A k \in 1..Len(s) : s[k] # sep THEN <<s>>
    ELSE LET first == CHOOSE k \in 1..Len(s) :
                          s[k] = sep /\ \A j \in 1..(k - 1) : s[j] # sep
         IN  <<SubSeq(s, 1, first - 1)>> \o Split(SubSeq(s, first + 1, Len(s)), sep)

\* s[2:-1]
Slice2ToLast(s) == SubSeq(s, 3, Len(s) - 1)

First(list) == list[1]
Last(list) == list[Len(list)]

Digits == <<"0", "1", "2", "3", "4", "5", "6", "7", "8", "9">>
IsDigit(c) == \E d \in 1..10 : Digits[d] = c
DigitValue(c) == (CHOOSE d \in 1..10 : Digits[d] = c) - 1

RECURSIVE DecimalValue(_)
DecimalValue(s) ==
    IF s = <<>> THEN 0
    ELSE 10 * DecimalValue(SubSeq(s, 1, Len(s) - 1)) + DigitValue(s[Len(s)])

\* int(s) raises ValueError unless s is a non-empty string of digits.
IntRaises(s) == s = <<>> \/ \E k \in 1..Len(s) : ~IsDigit(s[k])

RECURSIVE Decimal(_)
\* str(p) of a natural number.
Decimal(p) ==
    IF p < 10 THEN <<Digits[p + 1]>> ELSE Append(Decimal(p \div 10), Digits[(p % 10) + 1])

\* ------------------------------------------------------------------------
\* Configuration tables of the constants module
\* ------------------------------------------------------------------------
\* Contig names: two known contigs and one that CONTIG_LENGTHS does not list.
Chr1 == <<"1">>
Chr2 == <<"2">>
ChrGL == <<"G", "L">>

\* CONTIG_LENGTHS: the known contigs and their lengths.
CONTIG_LENGTHS == [c \in {Chr1, Chr2} |-> ChromLength]

\* ABERRATION_HEIGHTS: the structural variant types that have a height.
ABERRATION_HEIGHTS == {"DEL", "DUP", "INS", "INV", "BND", "TRA"}

\* N_INTERVALS: per contig, the intervals without reference sequence.
N_INTERVALS == [c \in {Chr1, Chr2} |-> <<<<1, 2>>>>]

\* PROBE_SPACING, the default spacing of spaced_probes.
PROBE_SPACING == 2

\* --frequency, 0.01 by default; frequencies are counted in hundredths.
DefaultFrequency == 1

\* ------------------------------------------------------------------------
\* variant_filter: one pass of its for loop over a record
\* ------------------------------------------------------------------------
\* The str.split chain of line 370, before int().
BndPosText(allele) == First(Split(First(Split(Split(allele, ":")[2], "]")), "["))

\* Mutation: the first pieces of the splits taken instead of the last ones.
BndChromFirstPieces(allele) ==
    First(Split(First(Split(First(Split(allele, ":")), "]")), "["))

\* bnd_chrom of line 371.
BndChrom(allele) == Last(Split(Last(Split(First(Split(allele, ":")), "]")), "["))

\* The unpacking of line 368 raises ValueError unless ALT[0][2:-1] holds one
\* ':'; int() of line 370 raises ValueError on anything but digits.
BndRaises(allele) ==
    \/ Len(Split(Slice2ToLast(allele), ":")) # 2
    \/ IntRaises(BndPosText(allele))

\* The frequency test of lines 381-385.
FrequencyVerdict(variant, max_frequency) ==
    IF variant.INFO.FRQ # None /\ Val(variant.INFO.FRQ) > max_frequency
    THEN "skip" ELSE "yield"

\* What the loop body does with a record: "skip" (continue), "yield", or
\* "raise" (an exception leaves the generator).
FilterVerdict(variant, min_size, max_frequency) ==
    LET end == variant.INFO.END
        allele == variant.ALT[1]
    IN  IF Truthy(end) /\ variant.INFO.SVTYPE # "TRA"
        THEN IF Abs(Val(end) - variant.start) <= min_size
             THEN "skip"
             ELSE FrequencyVerdict(variant, max_frequency)
        ELSE IF variant.INFO.SVTYPE = "BND"
             THEN IF BndRaises(allele) THEN "raise"
                  ELSE IF /\ BndChrom(allele) = variant.CHROM
                          /\ Abs(DecimalValue(BndPosText(allele)) - variant.start)
                                 < min_size
                       THEN "skip"
                       ELSE FrequencyVerdict(variant, max_frequency)
             ELSE FrequencyVerdict(variant, max_frequency)

\* ------------------------------------------------------------------------
\* events: one pass of its for loop over a record
\* ------------------------------------------------------------------------
Event(chrom, start, end, type) ==
    [chrom |-> chrom, start |-> start, end |-> end, type |-> type]

\* "skip" (continue), "raise" (the assert fails) or "yield" with the Event.
EventOf(variant) ==
    IF Len(variant.ALT) # 1 THEN [verdict |-> "skip"]
    ELSE IF variant.CHROM \notin DOMAIN CONTIG_LENGTHS THEN [verdict |-> "skip"]
    ELSE IF Truthy(variant.INFO.END)
         THEN LET end == Val(variant.INFO.END)
                  swap == variant.start <= end
              IN  IF Len(variant.REF) # 1 THEN [verdict |-> "raise"]
                  ELSE [verdict |-> "yield",
                        event |-> Event(variant.CHROM,
                                        IF swap THEN end ELSE variant.start,
                                        Some(IF swap THEN variant.start ELSE end),
                                        variant.INFO.SVTYPE)]
         ELSE [verdict |-> "yield",
               event |-> Event(variant.CHROM, variant.start, None, variant.INFO.SVTYPE)]

\* ------------------------------------------------------------------------
\* triangle_probes and the elements of the output document
\* ------------------------------------------------------------------------
TriangleWidth == 5001
TriangleSteps == 15
ProbeWidth == 60
PointWidth == 1000
BinSize == 20

\* The positions of triangle_probes(center): center + i * pos_step for i in
\* range(-(steps // 2), steps // 2 + 1).
triangle_probes(center) ==
    LET pos_step == (TriangleWidth - 1) \div (TriangleSteps - 1)
    IN  {center + i * pos_step :
            i \in (-(TriangleSteps \div 2))..(TriangleSteps \div 2)}

\* The attributes of a <probe> that the model keeps: start is written 1-based.
make_probe(chromosome, start, end, text) ==
    [chromosome |-> chromosome, start |-> start + 1, stop |-> end, name |-> text]

\* stop is str(end) of an end that may be None: it is kept as given.
make_segment(chromosome, start, end) ==
    [chrId |-> chromosome, start |-> start + 1, stop |-> end]

make_aberration(chromosome, start, end, confirmation) ==
    [chr |-> chromosome, start |-> start + 1, stop |-> end,
     confirmation |-> confirmation]

Range(list) == {list[k] : k \in 1..Len(list)}

\* The probes of the loop body of main for an Event (lines 443-452).
EventProbes(event) ==
    IF event.type \in {"INS", "BND"}
    THEN {make_probe(event.chrom, pos, pos + ProbeWidth, event.type) :
             pos \in triangle_probes(event.start)}
    ELSE {make_probe(event.chrom, pos, pos + ProbeWidth, event.type) :
             pos \in Range(spaced_probes(event.start, Val(event.end) - 1,
                                         PROBE_SPACING))}

\* ------------------------------------------------------------------------
\* add_probes_between_events
\* ------------------------------------------------------------------------
GapProbes(chrom, gap) ==
    {make_probe(chrom, pos, pos + ProbeWidth, "between events") :
        pos \in Range(spaced_probes(gap[1], gap[2], GapSpacing))}

\* The probes added for the contigs that have intervals.
add_probes_between_events(intervals_of) ==
    UNION {UNION {GapProbes(chrom, gap) :
                     gap \in Range(complement_intervals(
                                 merge_intervals(intervals_of[chrom]),
                                 CONTIG_LENGTHS[chrom]))} :
           chrom \in {c \in DOMAIN intervals_of : intervals_of[c] # <<>>}}

\* ------------------------------------------------------------------------
\* add_coverage_probes.  A line of the coverage file is its contig, its
\* coverage and the number of its tab-separated columns; line k is the
\* window [k - 1, k).
\* ------------------------------------------------------------------------
CoverageRecord(chrom, start, end, coverage) ==
    [chrom |-> chrom, start |-> start, end |-> end, coverage |-> coverage]

parse_coverages(file) ==
    [k \in 1..Len(file) |-> CoverageRecord(file[k].chrom, k - 1, k, file[k].coverage)]

RECURSIVE SumCoverage(_)
SumCoverage(records) ==
    IF records = <<>> THEN 0
    ELSE records[Len(records)].coverage + SumCoverage(SubSeq(records, 1, Len(records) - 1))

\* The runs of consecutive records of one contig, as (first, last) indices.
group_by_chromosome(records) ==
    {<<a, b>> \in (1..Len(records)) \X (1..Len(records)) :
        /\ a <= b
        /\ \A k \in a..b : records[k].chrom = records[a].chrom
        /\ (a = 1 \/ records[a - 1].chrom # records[a].chrom)
        /\ (b = Len(records) \/ records[b + 1].chrom # records[b].chrom)}

\* One record per BinSize records, from the first start to the last end; the
\* bin keeps the sum of its coverages (heights are not modelled).
bin_coverages(records) ==
    [b \in 1..((Len(records) + BinSize - 1) \div BinSize) |->
        LET lo == (b - 1) * BinSize + 1
            hi == IF b * BinSize < Len(records) THEN b * BinSize ELSE Len(records)
        IN  CoverageRecord(records[lo].chrom, records[lo].start, records[hi].end,
                           SumCoverage(SubSeq(records, lo, hi)))]

\* What the coverage stage raises, None when it ends normally: ValueError on
\* a line without five columns, ZeroDivisionError on no record of a known
\* contig (the mean) or on a mean of 0 (the height of the first probe), and
\* TypeError in subtract_intervals on two bins of one start.
CoverageRaises(file) ==
    LET coverages == SelectSeq(parse_coverages(file),
                               LAMBDA r : r.chrom \in DOMAIN CONTIG_LENGTHS)
        Bins(g) == bin_coverages(SubSeq(coverages, g[1], g[2]))
    IN  IF \E k \in 1..Len(file) : file[k].columns # 5 THEN Some("ValueError")
        ELSE IF coverages = <<>> THEN Some("ZeroDivisionError")
        ELSE IF \E g \in group_by_chromosome(coverages) : SubtractRaises(Bins(g))
             THEN Some("TypeError")
        ELSE IF /\ SumCoverage(coverages) = 0
                /\ \E g \in group_by_chromosome(coverages) :
                       subtract_intervals(Bins(g), N_INTERVALS[coverages[g[1]].chrom])
                           # <<>>
             THEN Some("ZeroDivisionError")
        ELSE None

add_coverage_probes(file) ==
    LET coverages == SelectSeq(parse_coverages(file),
                               LAMBDA r : r.chrom \in DOMAIN CONTIG_LENGTHS)
    IN  UNION {{make_probe(record.chrom, record.start, record.end, "coverage") :
                   record \in Range(subtract_intervals(
                                 bin_coverages(SubSeq(coverages, g[1], g[2])),
                                 N_INTERVALS[coverages[g[1]].chrom]))} :
               g \in group_by_chromosome(coverages)}

\* ------------------------------------------------------------------------
\* Variant records
\* ------------------------------------------------------------------------
Variant(chrom, start, ref, alt, type, end, frq) ==
    [CHROM |-> chrom, start |-> start, REF |-> ref, ALT |-> alt,
     INFO |-> [SVTYPE |-> type, END |-> end, FRQ |-> frq]]

\* Breakend alleles t[p[ and ]p]t for the partner p = chrom:pos.
BreakendAfter(chrom, pos) == <<"N", "[">> \o chrom \o <<":">> \o Decimal(pos) \o <<"[">>
BreakendBefore(chrom, pos) == <<"]">> \o chrom \o <<":">> \o Decimal(pos) \o <<"]", "N">>

\* Symbolic alleles <DEL>, <INS>, ...
Symbolic(type) ==
    CASE type = "DEL" -> <<"<", "D", "E", "L", ">">>
      [] type = "INS" -> <<"<", "I", "N", "S", ">">>
      [] type = "BND" -> <<"<", "B", "N", "D", ">">>
      [] type = "TRA" -> <<"<", "T", "R", "A", ">">>
      [] type = "CNV" -> <<"<", "C", "N", "V", ">">>

Starts == 0..(ChromLength - 1)
Ends == {None} \cup {Some(e) : e \in 0..ChromLength}

\* The records given to variant_filter on its own, each with the partner its
\* breakend allele was written from (None for a symbolic allele).
FilterCalls ==
    LET Mates == [chrom : {Chr1, Chr2}, pos : 0..ChromLength]
        Bnd == {[allele |-> BreakendAfter(m.chrom, m.pos), mate |-> Some(m)] : m \in Mates}
               \cup {[allele |-> BreakendBefore(m.chrom, m.pos), mate |-> Some(m)] :
                        m \in Mates}
        Alleles(type) == {[allele |-> Symbolic(type), mate |-> None]}
                         \cup (IF type = "BND" THEN Bnd ELSE {})
        Calls(type) ==
            {[variant |-> Variant(chrom, start, <<"N">>, <<a.allele>>, type, end, frq),
              mate |-> a.mate, min_size |-> size, max_frequency |-> DefaultFrequency] :
                <<chrom, start, end, frq, size>> \in
                    {Chr1, Chr2} \X Starts \X Ends
                    \X {None, Some(DefaultFrequency), Some(DefaultFrequency + 1)}
                    \X (0..DefaultSize),
                a \in Alleles(type)}
    IN  UNION {Calls(type) : type \in {"DEL", "BND", "TRA"}}

\* The records of the variant stream read by main: records of Chr1 with one
\* symbolic allele, a one-base REF and no frequency, at every start and END;
\* breakends without END with a breakend allele; and one record each with a
\* symbolic BND allele, on another known contig, on an unknown contig, with
\* two alleles, with a two-base REF and with a frequency above the default
\* maximum.
MainVariants ==
    LET whole == Some(ChromLength)
        Plain == {Variant(Chr1, start, <<"N">>, <<Symbolic(type)>>, type, end, None) :
                     start \in Starts, end \in Ends,
                     type \in {"DEL", "INS", "CNV"}}
        Breakends == {Variant(Chr1, start, <<"N">>, <<BreakendAfter(Chr1, 0)>>,
                              "BND", None, None) : start \in Starts}
        Odd == {Variant(Chr1, 0, <<"N">>, <<Symbolic("BND")>>, "BND", None, None),
                Variant(Chr2, 0, <<"N">>, <<Symbolic("DEL")>>, "DEL", whole, None),
                Variant(ChrGL, 0, <<"N">>, <<Symbolic("DEL")>>, "DEL", whole, None),
                Variant(Chr1, 0, <<"N">>, <<Symbolic("DEL"), Symbolic("INS")>>,
                        "DEL", whole, None),
                Variant(Chr1, 0, <<"N", "N">>, <<Symbolic("DEL")>>, "DEL", whole, None),
                Variant(Chr1, 0, <<"N">>, <<Symbolic("DEL")>>, "DEL", whole,
                        Some(DefaultFrequency + 1))}
    IN  Plain \cup Breakends \cup Odd

\* The coverage files read by add_coverage_probes.
CoverageLines == [chrom : {Chr1, ChrGL}, coverage : {0, 1}, columns : {5}]
                 \cup {[chrom |-> Chr1, coverage |-> 1, columns |-> 4]}

CoverageFiles == UNION {[1..k -> CoverageLines] : k \in 0..MaxLines}

\* ------------------------------------------------------------------------
\* State
\* ------------------------------------------------------------------------
VARIABLES
    call,           \* a function applied on its own: its name and arguments
    ret,            \* its results, None before it has run
    args,           \* main: the parsed command line
    pc,             \* main: where the run is
    raised,         \* main: the exception that ended the run, or None
    nread,          \* main: records taken from the variant stream
    event,          \* main: the last Event yielded by events(), or None
    chr_intervals,  \* main: contig -> list of (start, end) of the events
    segmentation,   \* document: the <segment> elements
    submission,     \* document: the <aberration> elements
    probes,         \* document: the <probe> elements
    emitted,        \* the probes added for the last Event
    n,              \* main: number of events converted
    written         \* number of times the output file was written

vars == <<call, ret, args, pc, raised, nread, event, chr_intervals, segmentation,
          submission, probes, emitted, n, written>>

mainVars == <<args, pc, raised, nread, event, chr_intervals, segmentation,
              submission, probes, emitted, n, written>>

\* main before its loop: an empty document and no intervals.
MainStart ==
    /\ pc = "events"
    /\ raised = None
    /\ nread = 0
    /\ event = None
    /\ chr_intervals = [c \in DOMAIN CONTIG_LENGTHS |-> <<>>]
    /\ segmentation = {}
    /\ submission = {}
    /\ probes = {}
    /\ emitted = {}
    /\ n = 0
    /\ written = 0

NoCall == call = None /\ ret = None

\* ------------------------------------------------------------------------
\* main
\* ------------------------------------------------------------------------
Init ==
    /\ NoCall
    /\ args \in [do_filtering : BOOLEAN, coverage : BOOLEAN,
                 size : {DefaultSize}, frequency : {DefaultFrequency}]
    /\ MainStart

\* An exception leaves main: nothing after the raising statement runs.
Raise(exception) ==
    /\ pc' = "error"
    /\ raised' = Some(exception)

\* Lines 427-453 for an Event whose type has a height.  An interval event
\* without end (a record without END, or with END=0) raises TypeError at
\* line 451 on event.end - 1, after its segment and aberration were added; the
\* run ends there, and the (start, None) appended at line 448 is not kept.
LoopBody(e) ==
    LET point == e.type \in {"INS", "BND"}
        end == IF point THEN Some(e.start + PointWidth) ELSE e.end
    IN  /\ segmentation' = segmentation \cup {make_segment(e.chrom, e.start, end)}
        /\ submission' = submission \cup {make_aberration(e.chrom, e.start, end, e.type)}
        /\ IF ~point /\ e.end = None
           THEN /\ Raise("TypeError")
                /\ emitted' = {}
                /\ UNCHANGED <<probes, chr_intervals, n>>
           ELSE /\ emitted' = EventProbes(e)
                /\ probes' = probes \cup EventProbes(e)
                /\ chr_intervals' =
                       IF point THEN chr_intervals
                       ELSE [chr_intervals EXCEPT
                                ![e.chrom] = Append(@, <<e.start, Val(e.end)>>)]
                /\ n' = n + 1
                /\ UNCHANGED <<pc, raised>>

\* The for loop of main takes the next record of the stream through
\* variant_filter (when filtering) and events, and runs its body on the
\* Event, if one is yielded.
ProcessVariant(variant) ==
    /\ pc = "events"
    /\ nread < MaxVariants
    /\ nread' = nread + 1
    /\ LET admitted == IF args.do_filtering
                       THEN FilterVerdict(variant, args.size, args.frequency)
                       ELSE "yield"
           extracted == EventOf(variant)
       IN  IF admitted = "raise"
           THEN /\ Raise("ValueError")
                /\ UNCHANGED <<event, chr_intervals, segmentation, submission,
                               probes, emitted, n>>
           ELSE IF admitted = "skip" \/ extracted.verdict = "skip"
           THEN UNCHANGED <<pc, raised, event, chr_intervals, segmentation,
                            submission, probes, emitted, n>>
           ELSE IF extracted.verdict = "raise"
           THEN /\ Raise("AssertionError")
                /\ UNCHANGED <<event, chr_intervals, segmentation, submission,
                               probes, emitted, n>>
           ELSE /\ event' = Some(extracted.event)
                /\ IF extracted.event.type \notin ABERRATION_HEIGHTS
                   THEN /\ Raise("KeyError")
                        /\ emitted' = {}
                        /\ UNCHANGED <<chr_intervals, segmentation, submission,
                                       probes, n>>
                   ELSE LoopBody(extracted.event)
    /\ UNCHANGED <<call, ret, args, written>>

\* The stream is exhausted: the loop ends.
EndOfStream ==
    /\ pc = "events"
    /\ pc' = "background"
    /\ UNCHANGED <<call, ret, args, raised, nread, event, chr_intervals,
                   segmentation, submission, probes, emitted, n, written>>

\* Line 455: the probes of the coverage file.
BackgroundCoverage(file) ==
    /\ pc = "background"
    /\ args.coverage
    /\ IF CoverageRaises(file) # None
       THEN /\ Raise(Val(CoverageRaises(file)))
            /\ UNCHANGED probes
       ELSE /\ probes' = probes \cup add_coverage_probes(file)
            /\ pc' = "write"
            /\ UNCHANGED raised
    /\ UNCHANGED <<call, ret, args, nread, event, chr_intervals, segmentation,
                   submission, emitted, n, written>>

\* Line 457: the probes between the events.
BackgroundBetween ==
    /\ pc = "background"
    /\ ~args.coverage
    /\ probes' = probes \cup add_probes_between_events(chr_intervals)
    /\ pc' = "write"
    /\ UNCHANGED <<call, ret, args, raised, nread, event, chr_intervals,
                   segmentation, submission, emitted, n, written>>

\* Mutation: the document is also written when the run has raised.
WriteAlways ==
    /\ pc \in {"write", "error"}
    /\ written = 0
    /\ written' = written + 1
    /\ pc' = IF pc = "write" THEN "done" ELSE pc
    /\ UNCHANGED <<call, ret, args, raised, nread, event, chr_intervals,
                   segmentation, submission, probes, emitted, n>>

\* Line 459: tree.write(args.out).
Write ==
    /\ pc = "write"
    /\ written' = written + 1
    /\ pc' = "done"
    /\ UNCHANGED <<call, ret, args, raised, nread, event, chr_intervals,
                   segmentation, submission, probes, emitted, n>>

Next ==
    \/ \E variant \in MainVariants : ProcessVariant(variant)
    \/ EndOfStream
    \/ \E file \in CoverageFiles : BackgroundCoverage(file)
    \/ BackgroundBetween
    \/ Write

Spec == Init /\ [][Next]_vars

\* ------------------------------------------------------------------------
\* The functions applied on their own: main does not run.
\* ------------------------------------------------------------------------
MainIdle ==
    /\ args = None
    /\ pc = "idle"
    /\ raised = None
    /\ nread = 0
    /\ event = None
    /\ chr_intervals = [c \in DOMAIN CONTIG_LENGTHS |-> <<>>]
    /\ segmentation = {}
    /\ submission = {}
    /\ probes = {}
    /\ emitted = {}
    /\ n = 0
    /\ written = 0

\* Lists of at most k elements of S.
ListsUpTo(S, k) == UNION {[1..j -> S] : j \in 0..k}

\* merge_intervals on a list of intervals (start <= end) inside
\* [0, chromosome_length], then complement_intervals on what it yields.
InitIntervals ==
    /\ call \in UNION {
           [fn : {"merge_intervals"},
            intervals : ListsUpTo({<<s, e>> \in (0..L) \X (0..L) : s <= e}, MaxIntervals),
            chromosome_length : {L}] : L \in 0..MaxCoord}
    /\ ret = None
    /\ MainIdle

CallMergeIntervals ==
    /\ call.fn = "merge_intervals"
    /\ ret = None
    /\ ret' = Some([merged |-> merge_intervals(call.intervals), gaps |-> None])
    /\ UNCHANGED <<call, mainVars>>

CallComplementIntervals ==
    /\ call.fn = "merge_intervals"
    /\ ret # None
    /\ Val(ret).gaps = None
    /\ ret' = Some([merged |-> Val(ret).merged,
                    gaps |-> Some(complement_intervals(Val(ret).merged,
                                                       call.chromosome_length))])
    /\ UNCHANGED <<call, mainVars>>

NextIntervals == CallMergeIntervals \/ CallComplementIntervals

SpecIntervals == InitIntervals /\ [][NextIntervals]_vars

\* spaced_probes on start < end and a positive spacing.
InitProbes ==
    /\ call \in {[fn |-> "spaced_probes", start |-> start, end |-> start + l,
                  probe_spacing |-> spacing] :
                    start \in 0..MaxStart, l \in 1..MaxLength, spacing \in 1..MaxSpacing}
    /\ ret = None
    /\ MainIdle

CallSpacedProbes ==
    /\ call.fn = "spaced_probes"
    /\ ret = None
    /\ ret' = Some(spaced_probes(call.start, call.end, call.probe_spacing))
    /\ UNCHANGED <<call, mainVars>>

NextProbes == CallSpacedProbes

SpecProbes == InitProbes /\ [][NextProbes]_vars

\* subtract_intervals on records of pairwise different starts and a list of
\* intervals (start <= end).
InitSubtract ==
    /\ call \in [fn : {"subtract_intervals"},
                 records : {rs \in ListsUpTo({CoverageRecord(Chr1, s, s + 1, 1) :
                                                 s \in 0..MaxCoord}, MaxRecords) :
                               ~SubtractRaises(rs)},
                 intervals : ListsUpTo({<<s, e>> \in (0..MaxCoord) \X (0..MaxCoord) :
                                           s <= e}, MaxIntervals)]
    /\ ret = None
    /\ MainIdle

CallSubtractIntervals ==
    /\ call.fn = "subtract_intervals"
    /\ ret = None
    /\ ret' = Some(subtract_intervals(call.records, call.intervals))
    /\ UNCHANGED <<call, mainVars>>

NextSubtract == CallSubtractIntervals

SpecSubtract == InitSubtract /\ [][NextSubtract]_vars

\* variant_filter on one record.
InitFilter ==
    /\ call \in {[fn |-> "variant_filter", variant |-> c.variant, mate |-> c.mate,
                  min_size |-> c.min_size, max_frequency |-> c.max_frequency] :
                    c \in FilterCalls}
    /\ ret = None
    /\ MainIdle

CallVariantFilter ==
    /\ call.fn = "variant_filter"
    /\ ret = None
    /\ ret' = Some(FilterVerdict(call.variant, call.min_size, call.max_frequency))
    /\ UNCHANGED <<call, mainVars>>

NextFilter == CallVariantFilter

SpecFilter == InitFilter /\ [][NextFilter]_vars

\* ------------------------------------------------------------------------
\* Properties
\* ------------------------------------------------------------------------
\* The integer points of the half-open intervals of a list.
PointsOf(list) == UNION {iv[1]..(iv[2] - 1) : iv \in Range(list)}

NonEmpty(iv) == iv[1] < iv[2]

\* Ascending, pairwise apart: each interval ends before the next one starts.
Apart(list) == \A k \in 1..(Len(list) - 1) : list[k][2] < list[k + 1][1]

\* C1 as stated: for intervals with start <= end, merge_intervals yields, in
\* ascending order, the minimal set of pairwise non-overlapping intervals
\* with the union of the input: intervals that are apart (touching ones are
\* merged), none of them empty, covering the same points; nothing for no input.
C1_MergeMinimal ==
    ret # None =>
        LET M == Val(ret).merged
            X == call.intervals
        IN  /\ Apart(M)
            /\ \A k \in 1..Len(M) : NonEmpty(M[k])
            /\ PointsOf(M) = PointsOf(X)
            /\ (X = <<>> => M = <<>>)

\* C1 amended: for intervals with start <= end, merge_intervals yields, in
\* ascending order, intervals that are apart (touching ones are merged) and
\* cover the points of the input; the set is minimal when no input interval
\* is empty; an empty interval (a, a) comes out, as itself, exactly when no
\* non-empty input interval contains or touches a; no input yields nothing.
C1_MergeMinimalButEmpty ==
    ret # None =>
        LET M == Val(ret).merged
            X == call.intervals
            Isolated(a) == \A x \in Range(X) : NonEmpty(x) => ~(x[1] <= a /\ a <= x[2])
        IN  /\ Apart(M)
            /\ \A k \in 1..Len(M) : M[k][1] <= M[k][2]
            /\ PointsOf(M) = PointsOf(X)
            /\ ((\A x \in Range(X) : NonEmpty(x)) => \A k \in 1..Len(M) : NonEmpty(M[k]))
            /\ \A k \in 1..Len(M) :
                   ~NonEmpty(M[k]) => M[k] \in Range(X) /\ Isolated(M[k][1])
            /\ \A x \in Range(X) : ~NonEmpty(x) /\ Isolated(x[1]) => x \in Range(M)
            /\ (X = <<>> => M = <<>>)

\* Three intervals, two of them touching, merged into one.
C1_Witness ==
    /\ ret # None
    /\ Len(call.intervals) = 3
    /\ Len(Val(ret).merged) = 1
    /\ \E i, j \in 1..3 : /\ NonEmpty(call.intervals[i]) /\ NonEmpty(call.intervals[j])
                          /\ call.intervals[i][2] = call.intervals[j][1]

\* C2: for intervals inside [0, L), the gaps of
\* complement_intervals(merge_intervals(X), L) are non-empty and pairwise
\* disjoint, disjoint from every interval of X, and cover [0, L) together with
\* X; there is a leading gap from 0 when no interval starts at 0 and a trailing
\* gap up to L when none ends at L.
C2_ComplementCovers ==
    (ret # None /\ Val(ret).gaps # None) =>
        LET G == Val(Val(ret).gaps)
            X == call.intervals
            L == call.chromosome_length
        IN  /\ \A k \in 1..Len(G) : NonEmpty(G[k])
            /\ \A j, k \in 1..Len(G) :
                   j # k => PointsOf(<<G[j]>>) \cap PointsOf(<<G[k]>>) = {}
            /\ PointsOf(G) \cap PointsOf(X) = {}
            /\ PointsOf(G) \cup PointsOf(X) = 0..(L - 1)
            /\ (L > 0 /\ \A x \in Range(X) : x[1] # 0) => (G # <<>> /\ G[1][1] = 0)
            /\ (L > 0 /\ \A x \in Range(X) : x[2] # L) => (G # <<>> /\ G[Len(G)][2] = L)

\* Gaps before, between and after two merged intervals.
C2_Witness ==
    /\ ret # None
    /\ Val(ret).gaps # None
    /\ Len(Val(ret).merged) = 2
    /\ Len(Val(Val(ret).gaps)) = 3
    /\ \A x \in Range(call.intervals) : x[1] # 0 /\ x[2] # call.chromosome_length

\* C3 as stated: for start < end and a positive spacing, spaced_probes yields
\* at least 3 positions, the first being start and the last being end.
C3_SpacedProbesEnds ==
    ret # None =>
        LET P == Val(ret)
        IN  Len(P) >= 3 /\ P[1] = call.start /\ P[Len(P)] = call.end

\* C4 as stated: a record with an explicit END and a type other than TRA is
\* yielded exactly when |END - start| > min_size and its frequency is absent
\* or at most max_frequency.
C4_FilterDecision ==
    (ret # None /\ call.variant.INFO.END # None /\ call.variant.INFO.SVTYPE # "TRA") =>
        (Val(ret) = "yield" <=>
            /\ Abs(Val(call.variant.INFO.END) - call.variant.start) > call.min_size
            /\ \/ call.variant.INFO.FRQ = None
               \/ Val(call.variant.INFO.FRQ) <= call.max_frequency)

\* The ALT allele of the record names a partner on the record's own contig,
\* closer than min_size to the record's start.
LocalBreakend ==
    /\ call.variant.INFO.SVTYPE = "BND"
    /\ call.mate # None
    /\ Val(call.mate).chrom = call.variant.CHROM
    /\ Abs(Val(call.mate).pos - call.variant.start) < call.min_size

\* C5 as stated: a BND record whose ALT allele names a partner on its own
\* contig closer than min_size is never yielded.
C5_LocalBreakend ==
    (ret # None /\ LocalBreakend) => Val(ret) # "yield"

\* C5 amended: a BND record without END (or with END = 0) whose ALT allele
\* names a partner on its own contig closer than min_size is never yielded.
C5_LocalBreakendWithoutEnd ==
    (ret # None /\ LocalBreakend /\ ~Truthy(call.variant.INFO.END)) =>
        Val(ret) # "yield"

\* A local breakend without END and without frequency, skipped.
C5_Witness ==
    /\ ret = Some("skip")
    /\ LocalBreakend
    /\ call.variant.INFO.END = None
    /\ call.variant.INFO.FRQ = None

\* C6 as stated: every Event yielded by events() with an end has start < end.
C6_EventOrdered ==
    (event # None /\ Val(event).end # None) =>
        Val(event).start < Val(Val(event).end)

\* Every interval of the list holds no record start: the record starts lie
\* outside [s, e) of each.
OutsideAll(start, intervals) ==
    \A iv \in Range(intervals) : ~(iv[1] <= start /\ start < iv[2])

\* C7 as stated: for records of pairwise different starts and non-empty
\* intervals [s, e), overlapping, nested or touching, subtract_intervals
\* yields a record exactly when its start lies in none of the intervals.
C7_SubtractOutside ==
    (ret # None /\ \A iv \in Range(call.intervals) : NonEmpty(iv)) =>
        \A r \in Range(call.records) :
            r \in Range(Val(ret)) <=> OutsideAll(r.start, call.intervals)

\* C8 as stated: for an Event with an end and a type with a height other than
\* INS and BND, the run emits at least one probe named after the type, all
\* such probes at positions between the two coordinates of the event.
C8_IntervalEventProbes ==
    (/\ event # None
     /\ Val(event).end # None
     /\ Val(event).type \in ABERRATION_HEIGHTS \ {"INS", "BND"}) =>
        LET e == Val(event)
            lo == IF e.start <= Val(e.end) THEN e.start ELSE Val(e.end)
            hi == IF e.start <= Val(e.end) THEN Val(e.end) ELSE e.start
            own == {p \in emitted : p.name = e.type}
        IN  own # {} /\ \A p \in own : lo <= p.start - 1 /\ p.start - 1 <= hi

\* C9: the output is written at most once, only at the end of a run that
\* raised nothing, with the background probes in the document; a run that
\* raised (an Event whose type has no height, a failing coverage stage, ...)
\* has written nothing and writes nothing.
C9_WrittenOnceAtEnd ==
    /\ written <= 1
    /\ written = 1 =>
           /\ pc = "done"
           /\ raised = None
           /\ ~args.coverage => add_probes_between_events(chr_intervals) \subseteq probes
    /\ pc = "error" <=> raised # None
    /\ pc = "error" => written = 0
    /\ (event # None /\ Val(event).type \notin ABERRATION_HEIGHTS) =>
           (pc = "error" /\ raised = Some("KeyError"))

\* A run stopped by an Event whose type has no height, after another Event
\* was converted: nothing is written.
C9_Witness ==
    /\ pc = "error"
    /\ raised = Some("KeyError")
    /\ n >= 1
    /\ written = 0

\* C10 as stated: without a coverage file, no probe named "between events"
\* lies at a position p with lo <= p < hi for the coordinates lo <= hi of an
\* interval event recorded on the same contig.
C10_BetweenProbesInGaps ==
    (pc \in {"write", "done"} /\ ~args.coverage) =>
        \A p \in probes :
            p.name = "between events" =>
                \A iv \in Range(chr_intervals[p.chromosome]) :
                    LET lo == IF iv[1] <= iv[2] THEN iv[1] ELSE iv[2]
                        hi == IF iv[1] <= iv[2] THEN iv[2] ELSE iv[1]
                    IN  ~(lo <= p.start - 1 /\ p.start - 1 < hi)

====
